---- MODULE Spec2Model ----
(***************************************************************************)
(* Yahoo -> Gmail forwarder (src/forward_emails.py).                       *)
(*                                                                         *)
(* One invocation of fetch_and_forward is a process p that walks through   *)
(* the calls the function makes to its collaborators: the clock, the       *)
(* counter file, the IMAP session and the SMTP session.  Every call that   *)
(* can fail is an action with one outcome per way the call can end; a call *)
(* "fails" when it raises.  The mailbox follows RFC 3501: FETCH RFC822 on  *)
(* a mailbox selected read-write sets \Seen on the fetched message.        *)
(***************************************************************************)
EXTENDS Integers, Sequences, FiniteSets, TLC

\* ------------------------------------------------------------------ bounds
\* Messages in the source mailbox, all unread at the start.
NumMsgs == 3
\* Calendar days the clock can reach.
MaxDay == 2
\* forward_emails.py:24 sets 50; scaled down so that a mailbox of NumMsgs
\* messages exceeds one batch.
MAX_EMAILS_PER_RUN == 2
\* forward_emails.py:25 sets 9; scaled down so that the quota is reached.
MAX_RUNS_PER_DAY == 2

\* --------------------------------------------------------------- constants
\* time(0, 1) and time(9, 0) as minutes after midnight.
RUN_START_TIME == 1
RUN_END_TIME == 540

Msgs == 1..NumMsgs
Procs == {1, 2}
\* Sampled wall-clock times: 00:00, 00:01, 09:00, 09:01.
Times == <<0, 1, 540, 541>>

VARIABLES
    creds,      \* all four environment variables are set
    day,        \* current calendar day
    now,        \* index into Times: current local time
    file,       \* COUNTER_FILE
    seen,       \* messages flagged \Seen in the Yahoo inbox
    run,        \* run[p]: locals and sessions of invocation p
    delivered,  \* history: how often each message reached Gmail (capped at 2)
    fwdRuns,    \* history: runs started on the current day that delivered mail
    saveFailed  \* history: a counter write of a run of the current day failed

vars == <<creds, day, now, file, seen, run, delivered, fwdRuns, saveFailed>>

\* ----------------------------------------------------------------- helpers
Min(a, b) == IF a <= b THEN a ELSE b

RECURSIVE SortedSeq(_)
SortedSeq(S) ==
    IF S = {} THEN <<>>
    ELSE LET m == CHOOSE x \in S : \A y \in S : x <= y
         IN  <<m>> \o SortedSeq(S \ {m})

MissingFile == [kind |-> "missing", date |-> 0, runs |-> 0, emails_sent |-> 0]
CorruptFile == [kind |-> "corrupt", date |-> 0, runs |-> 0, emails_sent |-> 0]
JsonFile(date, runs, emails_sent) ==
    [kind |-> "json", date |-> date, runs |-> runs, emails_sent |-> emails_sent]

\* One call to a collaborator, as the history of a run records it.
Ev(op, id, res) == <<op, id, res>>

IdleRun ==
    [pc |-> "idle", runs_today |-> 0, emails_sent_today |-> 0, today |-> 0,
     email_ids |-> <<>>, email_ids_to_process |-> <<>>, i |-> 0,
     forwarded_count |-> 0, failed_count |-> 0,
     imap |-> "none", smtp |-> "none",
     exit |-> -1, summary |-> FALSE, result |-> "none", trace |-> <<>>]

\* Faulty variant: the loop index is not used, every step names the first item.
num_AlwaysFirst(r) == r.email_ids_to_process[1]

total_unread(r) == Len(r.email_ids)
processing_count(r) == Len(r.email_ids_to_process)
num(r) == r.email_ids_to_process[r.i]

\* ------------------------------------------------------------ pure functions
validate_credentials == creds

\* Faulty variant: the end of the window is excluded.
is_within_run_window_EndExcluded(t) == RUN_START_TIME <= t /\ t < RUN_END_TIME

is_within_run_window(t) == RUN_START_TIME <= t /\ t <= RUN_END_TIME

\* The Subject header of message m as email.message_from_bytes yields it
\* (lines 181-185): a folded header keeps its line break, a bare CR stays.
Subject(m) ==
    CASE m % 3 = 1 -> <<"R", "e", ":", "LF", " ", "x">>
      [] m % 3 = 2 -> <<"h", "i">>
      [] OTHER -> <<"a", "CR", "b">>

\* Line 197: smtp.send_message is handed the parsed message itself; lines
\* 185-190 read the subject into a local and shorten it for the log only.
SentSubject(m) == Subject(m)

\* Faulty variant: the stored counters are returned whatever their date.
get_daily_run_count_KeepsStale(f, today) ==
    IF f.kind = "json" THEN <<f.runs, f.emails_sent>> ELSE <<0, 0>>

\* (runs, emails_sent) returned for counter file f on day `today`.
get_daily_run_count(f, today) ==
    IF f.kind = "missing" THEN <<0, 0>>
    ELSE IF f.kind = "corrupt" THEN <<0, 0>>
    ELSE IF f.date # today THEN <<0, 0>>
    ELSE <<f.runs, f.emails_sent>>

\* Faulty variant: the limit is compared with > where the code has >=.
QuotaReached_OneLate(runs) == runs > MAX_RUNS_PER_DAY

\* Line 128: the daily run limit.
QuotaReached(runs) == runs >= MAX_RUNS_PER_DAY

\* Faulty variant: the search asks for ALL messages, read ones included.
SearchUnseen_All(s) == SortedSeq(Msgs)

\* mail.search(None, 'UNSEEN'): the unread identifiers, ascending.
SearchUnseen(s) == SortedSeq(Msgs \ s)

\* Faulty variant: the slice takes one identifier too many.
FirstN_OneMore(ids, n) == SubSeq(ids, 1, Min(Len(ids), n + 1))

\* email_ids[:n]
FirstN(ids, n) == SubSeq(ids, 1, Min(Len(ids), n))

\* Faulty variant: the process ends with status zero whatever the cause.
Exit_StatusZero(r, code, result) ==
    [r EXCEPT !.pc = "done", !.exit = 0, !.result = result]

\* sys.exit(1) / return: the invocation is over.
Exit(r, code, result) == [r EXCEPT !.pc = "done", !.exit = code, !.result = result]

Log(r, e) == [r EXCEPT !.trace = Append(@, e)]

\* for-loop bookkeeping: the next item, or the code after the loop.
NextItem(r) ==
    IF r.i < processing_count(r)
    THEN [r EXCEPT !.i = @ + 1, !.pc = "fetch"]
    ELSE [r EXCEPT !.pc = "update"]

\* Faulty variant: the exception of one item ends the loop.
ItemFailed_AbortsBatch(r) == [r EXCEPT !.failed_count = @ + 1, !.pc = "update"]

\* except Exception (lines 211-214): count the item as failed and go on.
ItemFailed(r) == NextItem([r EXCEPT !.failed_count = @ + 1])

\* Faulty variant: every attempted item is counted as sent.
Tally_CountsAttempted(r) ==
    [r EXCEPT !.runs_today = @ + 1, !.emails_sent_today = @ + processing_count(r)]

\* Faulty variant: the run is not counted.
Tally_RunNotCounted(r) ==
    [r EXCEPT !.emails_sent_today = @ + r.forwarded_count]

\* Lines 217-218: the counters that are written back.
Tally(r) ==
    [r EXCEPT !.runs_today = @ + 1, !.emails_sent_today = @ + r.forwarded_count]

\* ------------------------------------------------------------------- actions
Env == <<creds, day, now>>
Hist == <<delivered, fwdRuns, saveFailed>>

\* Lines 95-108: validate_credentials, then the time-window gate.
Start(p) ==
    /\ run[p].pc = "idle"
    /\ LET r == [IdleRun EXCEPT !.pc = "load"]
       IN  run' = [run EXCEPT ![p] =
                IF ~validate_credentials THEN Exit(r, 1, "nocreds")
                ELSE IF ~is_within_run_window(Times[now]) THEN Exit(r, 0, "window")
                ELSE r]
    /\ UNCHANGED <<Env, file, seen, Hist>>

\* Lines 110-134: read the counter file, then the daily-run gate.
LoadCount(p) ==
    /\ run[p].pc = "load"
    /\ LET c == get_daily_run_count(file, day)
           r == Log([run[p] EXCEPT !.runs_today = c[1], !.emails_sent_today = c[2],
                                   !.today = day],
                    Ev("load", 0, "ok"))
       IN  run' = [run EXCEPT ![p] =
                IF QuotaReached(r.runs_today) THEN Exit(r, 0, "quota")
                ELSE [r EXCEPT !.pc = "imap"]]
    /\ UNCHANGED <<Env, file, seen, Hist>>

\* Lines 136-141: IMAP4_SSL, login, select; a failure reaches sys.exit(1).
ImapConnect(p) ==
    /\ run[p].pc = "imap"
    /\ \E ok \in BOOLEAN :
         LET r == Log(run[p], Ev("imap_login", 0, IF ok THEN "ok" ELSE "error"))
         IN  run' = [run EXCEPT ![p] =
                  IF ok THEN [r EXCEPT !.imap = "open", !.pc = "search"]
                  ELSE Exit(r, 1, "imap_error")]
    /\ UNCHANGED <<Env, file, seen, Hist>>

\* Lines 143-165: search UNSEEN, the empty-mailbox return, the batch.
Search(p) ==
    /\ run[p].pc = "search"
    /\ \E ok \in BOOLEAN :
         LET r   == Log(run[p], Ev("search", 0, IF ok THEN "ok" ELSE "error"))
             ids == SearchUnseen(seen)
         IN  run' = [run EXCEPT ![p] =
                  IF ~ok THEN Exit(r, 1, "imap_error")
                  ELSE IF ids = <<>>
                  THEN Exit(Log([r EXCEPT !.imap = "closed"], Ev("logout", 0, "ok")),
                            0, "empty")
                  ELSE [r EXCEPT !.email_ids = ids,
                                 !.email_ids_to_process = FirstN(ids, MAX_EMAILS_PER_RUN),
                                 !.pc = "smtp"]]
    /\ UNCHANGED <<Env, file, seen, Hist>>

\* Lines 167-175: SMTP_SSL, login; a failure reaches sys.exit(1).
SmtpConnect(p) ==
    /\ run[p].pc = "smtp"
    /\ \E ok \in BOOLEAN :
         LET r == Log(run[p], Ev("smtp_login", 0, IF ok THEN "ok" ELSE "error"))
         IN  run' = [run EXCEPT ![p] =
                  IF ok THEN [r EXCEPT !.smtp = "open", !.i = 1, !.pc = "fetch",
                                       !.forwarded_count = 0, !.failed_count = 0]
                  ELSE Exit(r, 1, "smtp_error")]
    /\ UNCHANGED <<Env, file, seen, Hist>>

\* How an IMAP command can end: on a live session it succeeds, is refused
\* (imaplib.IMAP4.error) or loses the connection (imaplib.IMAP4.abort); on a
\* lost session it always raises.
ImapOutcomes(r) == IF r.imap = "open" THEN {"ok", "error", "abort"} ELSE {"abort"}

\* How smtp.send_message can end: delivered, refused (SMTPException with the
\* session alive) or SMTPServerDisconnected, after which smtplib has closed
\* the socket and every later command raises SMTPServerDisconnected.
SmtpOutcomes(r) == IF r.smtp = "open" THEN {"ok", "rejected", "disconnected"}
                   ELSE {"disconnected"}

\* The \Seen flags after FETCH n (RFC822) on the read-write inbox: RFC822 is
\* BODY[] without .PEEK, so a fetch the server answers sets \Seen on n.
FetchFlags(s, n, res) == IF res = "ok" THEN s \cup {n} ELSE s

\* Lines 180-214, after mail.fetch returned or raised.
AfterFetch(r, res) ==
    IF res = "ok" THEN [r EXCEPT !.pc = "send"]
    ELSE ItemFailed([r EXCEPT !.imap = IF res = "abort" THEN "dead" ELSE @])

\* Faulty variant: the mark-seen is reached whether or not the send raised.
AfterSend_MarksUnsent(r, res) ==
    [r EXCEPT !.pc = "store", !.smtp = IF res = "disconnected" THEN "dead" ELSE @]

\* Lines 197-214, after smtp.send_message returned or raised.
AfterSend(r, res) ==
    IF res = "ok" THEN [r EXCEPT !.pc = "store"]
    ELSE ItemFailed([r EXCEPT !.smtp = IF res = "disconnected" THEN "dead" ELSE @])

\* Faulty variant: the item is counted as forwarded before the mark is made.
AfterStore_CountsBeforeMark(r, res) ==
    IF res = "ok" THEN NextItem([r EXCEPT !.forwarded_count = @ + 1])
    ELSE ItemFailed([r EXCEPT !.forwarded_count = @ + 1,
                              !.imap = IF res = "abort" THEN "dead" ELSE @])

\* Lines 200-214, after mail.store returned or raised.
AfterStore(r, res) ==
    IF res = "ok" THEN NextItem([r EXCEPT !.forwarded_count = @ + 1])
    ELSE ItemFailed([r EXCEPT !.imap = IF res = "abort" THEN "dead" ELSE @])

\* Lines 180-194: mail.fetch(num, '(RFC822)') and the parsing of the result.
Fetch(p) ==
    /\ run[p].pc = "fetch"
    /\ \E res \in ImapOutcomes(run[p]) :
         LET r == Log(run[p], Ev("fetch", num(run[p]), res))
         IN  /\ seen' = FetchFlags(seen, num(r), res)
             /\ run' = [run EXCEPT ![p] = AfterFetch(r, res)]
    /\ UNCHANGED <<Env, file, Hist>>

\* Line 197: smtp.send_message.
Send(p) ==
    /\ run[p].pc = "send"
    /\ \E res \in SmtpOutcomes(run[p]) :
         LET r     == Log(run[p], Ev("send", num(run[p]), res))
             first == ~\E k \in 1..Len(run[p].trace) :
                          run[p].trace[k][1] = "send" /\ run[p].trace[k][3] = "ok"
         IN  /\ run' = [run EXCEPT ![p] = AfterSend(r, res)]
             /\ delivered' = IF res = "ok"
                             THEN [delivered EXCEPT ![num(r)] = Min(@ + 1, 2)]
                             ELSE delivered
             /\ fwdRuns' = IF res = "ok" /\ first /\ r.today = day
                           THEN fwdRuns + 1
                           ELSE fwdRuns
    /\ UNCHANGED <<Env, file, seen, saveFailed>>

\* Lines 200-209: mail.store(num, '+FLAGS', '\\Seen'), then the tally.
Store(p) ==
    /\ run[p].pc = "store"
    /\ \E res \in ImapOutcomes(run[p]) :
         LET r == Log(run[p], Ev("store", num(run[p]), res))
         IN  /\ seen' = IF res = "ok" THEN seen \cup {num(r)} ELSE seen
             /\ run' = [run EXCEPT ![p] = AfterStore(r, res)]
    /\ UNCHANGED <<Env, file, Hist>>

\* Lines 216-219 with update_daily_run_count (lines 80-90): open(..., 'w')
\* may fail before the file is touched, or json.dump may fail after the file
\* was truncated; both are only logged.
Update(p) ==
    /\ run[p].pc = "update"
    /\ \E res \in {"ok", "open_failed", "dump_failed"} :
         LET r == Log([Tally(run[p]) EXCEPT !.pc = "cleanup"], Ev("save", 0, res))
         IN  /\ run' = [run EXCEPT ![p] = r]
             /\ file' = CASE res = "ok" ->
                               JsonFile(r.today, r.runs_today, r.emails_sent_today)
                          [] res = "open_failed" -> file
                          [] OTHER -> CorruptFile
             /\ saveFailed' = (saveFailed \/ (res # "ok" /\ r.today = day))
    /\ UNCHANGED <<Env, seen, delivered, fwdRuns>>

\* Lines 221-255: smtp.quit(), mail.close(), mail.logout(), the summary.  A
\* command on a lost session raises; SMTPServerDisconnected is an
\* SMTPException and IMAP4.abort an IMAP4.error, so both reach sys.exit(1).
Cleanup(p) ==
    /\ run[p].pc = "cleanup"
    /\ LET r == run[p]
       IN  run' = [run EXCEPT ![p] =
                IF r.smtp # "open"
                THEN Exit(Log(r, Ev("quit", 0, "disconnected")), 1, "smtp_error")
                ELSE LET q == Log([r EXCEPT !.smtp = "quit"], Ev("quit", 0, "ok"))
                     IN  IF r.imap # "open"
                         THEN Exit(Log(q, Ev("logout", 0, "abort")), 1, "imap_error")
                         ELSE Exit(Log([q EXCEPT !.imap = "closed", !.summary = TRUE],
                                       Ev("logout", 0, "ok")),
                                   0, "complete")]
    /\ UNCHANGED <<Env, file, seen, Hist>>

\* Line 258: the process ends and its locals are gone.
Return(p) ==
    /\ run[p].pc = "done"
    /\ run' = [run EXCEPT ![p] = IdleRun]
    /\ UNCHANGED <<Env, file, seen, Hist>>

\* The wall clock moves on; the per-day history starts afresh at midnight.
\* A run reads the clock only as it starts (lines 58 and 63) and is short
\* against the sampled times, so the clock moves between runs.
ClockAdvance ==
    /\ IF now < Len(Times)
       THEN now' = now + 1 /\ day' = day /\ UNCHANGED <<fwdRuns, saveFailed>>
       ELSE /\ day < MaxDay
            /\ now' = 1
            /\ day' = day + 1
            /\ fwdRuns' = 0
            /\ saveFailed' = FALSE
    /\ UNCHANGED <<creds, file, seen, run, delivered>>

Tick ==
    /\ \A p \in Procs : run[p].pc = "idle"
    /\ ClockAdvance

\* A run that lasts: the clock moves while the batch is processed.  Nothing
\* reads the clock between line 63 and the end of the loop, so the time that
\* passed shows when the counters are written back.
TickInRun ==
    /\ \E p \in Procs : run[p].pc = "update"
    /\ ClockAdvance

Step(p) ==
    \/ Start(p)
    \/ LoadCount(p)
    \/ ImapConnect(p)
    \/ Search(p)
    \/ SmtpConnect(p)
    \/ Fetch(p)
    \/ Send(p)
    \/ Store(p)
    \/ Update(p)
    \/ Cleanup(p)
    \/ Return(p)

Init ==
    /\ creds \in BOOLEAN
    /\ day = 1
    /\ now = 1
    /\ file \in {MissingFile, CorruptFile, JsonFile(0, MAX_RUNS_PER_DAY, 1)}
    /\ seen = {}
    /\ run = [p \in Procs |-> IdleRun]
    /\ delivered = [m \in Msgs |-> 0]
    /\ fwdRuns = 0
    /\ saveFailed = FALSE

\* The scheduler starts one invocation at a time.
Next == Step(1) \/ Tick

Spec == Init /\ [][Next]_vars

\* As Spec, with runs that can last past a sampled time or past midnight.
NextLong == Step(1) \/ Tick \/ TickInRun

SpecLong == Init /\ [][NextLong]_vars

\* Two invocations at once: cron and a manual start, say.  The code takes no
\* lock on the mailbox or on the counter file, so their steps interleave
\* freely.  Each process makes one run, inside the window, with no counter
\* file yet and messages 1 and 2 unread.
Invocation(p) ==
    \/ Start(p)
    \/ LoadCount(p)
    \/ ImapConnect(p)
    \/ Search(p)
    \/ SmtpConnect(p)
    \/ Fetch(p)
    \/ Send(p)
    \/ Store(p)
    \/ Update(p)
    \/ Cleanup(p)

InitOverlap ==
    /\ creds = TRUE
    /\ day = 1
    /\ now = 2
    /\ file = MissingFile
    /\ seen = Msgs \ {1, 2}
    /\ run = [p \in Procs |-> IdleRun]
    /\ delivered = [m \in Msgs |-> 0]
    /\ fwdRuns = 0
    /\ saveFailed = FALSE

NextOverlap == Invocation(1) \/ Invocation(2)

SpecOverlap == InitOverlap /\ [][NextOverlap]_vars

\* ---------------------------------------------------------------- properties
\* Positions in the history of run p of the calls `op` on message m.
Events(p, op, m) ==
    {k \in DOMAIN run[p].trace : run[p].trace[k][1] = op /\ run[p].trace[k][2] = m}

Did(p, op, m, res) == \E k \in DOMAIN run[p].trace : run[p].trace[k] = <<op, m, res>>

\* Some call made for message m in run p raised.
ItemRaised(p, m) ==
    \E k \in DOMAIN run[p].trace :
        /\ run[p].trace[k][1] \in {"fetch", "send", "store"}
        /\ run[p].trace[k][2] = m
        /\ run[p].trace[k][3] # "ok"

\* Both logins succeeded: the run entered the for loop.
LoopEntered(p) == Did(p, "smtp_login", 0, "ok")

\* C1: within one run mail.store(+FLAGS \Seen) is called for an item if and
\* only if smtp.send_message returned for that item, directly after that send,
\* and at most once per item.
C1_MarkIffSent ==
    \A p \in Procs :
        LET t == run[p].trace
        IN  \A k \in DOMAIN t :
                /\ t[k][1] = "store" =>
                       /\ k > 1 /\ t[k - 1] = <<"send", t[k][2], "ok">>
                       /\ \A j \in DOMAIN t :
                              (t[j][1] = "store" /\ t[j][2] = t[k][2]) => j = k
                /\ (t[k][1] = "send" /\ t[k][3] = "ok") =>
                       IF k < Len(t)
                       THEN t[k + 1][1] = "store" /\ t[k + 1][2] = t[k][2]
                       ELSE run[p].pc = "store" /\ num(run[p]) = t[k][2]

\* A finished run that marked one item and, for another, sent without success.
C1_Witness ==
    \E p \in Procs : \E m1, m2 \in Msgs :
        /\ run[p].pc = "done"
        /\ Did(p, "send", m1, "ok") /\ Did(p, "store", m1, "ok")
        /\ Did(p, "send", m2, "rejected") /\ Events(p, "store", m2) = {}

\* C2: after a run, every message of the batch whose fetch or send failed is
\* still unread in the source mailbox.
C2_UnsentStayUnread ==
    \A p \in Procs : \A m \in Msgs :
        (/\ run[p].pc = "done"
         /\ \/ Events(p, "fetch", m) # {} /\ ~Did(p, "fetch", m, "ok")
            \/ Events(p, "send", m) # {} /\ ~Did(p, "send", m, "ok"))
        => m \notin seen

\* C3: a send that fails with a disconnect is followed by one reconnect and one
\* retry of the same send.
C3_DisconnectRetried ==
    \A p \in Procs : \A m \in Msgs :
        LET t == run[p].trace
        IN  \A k \in DOMAIN t :
                t[k] = <<"send", m, "disconnected">> =>
                    /\ k + 1 <= Len(t) => t[k + 1][1] = "smtp_login"
                    /\ k + 2 <= Len(t) => t[k + 2][1] = "send" /\ t[k + 2][2] = m

\* The scenario of C4 with the source's numbers: 60 unread, a limit of 50.
Attempted60of50 == Len(FirstN([k \in 1..60 |-> k], 50))

\* C4: the batch is the first min(total_unread, MAX_EMAILS_PER_RUN) identifiers
\* of the UNSEEN list (with 60 unread and a limit of 50: 50, leaving 10), and
\* no identifier outside the batch is fetched, sent or marked in the run.
C4_BatchIsPrefix ==
    /\ Attempted60of50 = 50
    /\ 60 - Attempted60of50 = 10
    /\ \A p \in Procs :
          LET r == run[p]
          IN  /\ processing_count(r) = Min(total_unread(r), MAX_EMAILS_PER_RUN)
              /\ \A k \in 1..processing_count(r) :
                     r.email_ids_to_process[k] = r.email_ids[k]
              /\ r.pc = "smtp" =>
                     /\ {r.email_ids[k] : k \in DOMAIN r.email_ids} = Msgs \ seen
                     /\ \A j, k \in DOMAIN r.email_ids :
                            j < k => r.email_ids[j] < r.email_ids[k]
              /\ \A k \in DOMAIN r.trace :
                     r.trace[k][1] \in {"fetch", "send", "store"} =>
                         \E j \in 1..processing_count(r) :
                             r.email_ids_to_process[j] = r.trace[k][2]

\* A completed run that found more unread messages than one batch holds.
C4_Witness ==
    \E p \in Procs :
        /\ run[p].result = "complete"
        /\ total_unread(run[p]) > MAX_EMAILS_PER_RUN
        /\ processing_count(run[p]) = MAX_EMAILS_PER_RUN
        /\ Events(p, "fetch", run[p].email_ids[MAX_EMAILS_PER_RUN + 1]) = {}

\* C5: once the loop is entered every item of the batch is attempted, whichever
\* earlier items failed, and failed_count counts exactly the items that raised.
C5_NonAbort ==
    \A p \in Procs :
        LET r == run[p]
            n == processing_count(r)
            attempted(k) == \E j \in DOMAIN r.trace :
                                /\ r.trace[j][1] = "fetch"
                                /\ r.trace[j][2] = r.email_ids_to_process[k]
        IN  /\ r.pc \in {"fetch", "send", "store"} =>
                   \A k \in 1..(r.i - 1) : attempted(k)
            /\ (r.pc \in {"update", "cleanup", "done"} /\ LoopEntered(p)) =>
                   /\ \A k \in 1..n : attempted(k)
                   /\ r.failed_count =
                          Cardinality({k \in 1..n : ItemRaised(p, r.email_ids_to_process[k])})

\* A finished run whose first item failed at the fetch, the send or the mark
\* and whose second item was still forwarded.
C5_Witness ==
    \E p \in Procs :
        /\ run[p].pc = "done"
        /\ processing_count(run[p]) >= 2
        /\ ItemRaised(p, run[p].email_ids_to_process[1])
        /\ Did(p, "store", run[p].email_ids_to_process[2], "ok")
        /\ run[p].failed_count = 1

\* C6: a run that loads runs >= MAX_RUNS_PER_DAY for today returns at once: its
\* only call is the read of the counter file, no session is opened, and the
\* counter file still holds what was loaded.
C6_QuotaGate ==
    \A p \in Procs :
        LET r == run[p]
        IN  /\ (/\ r.trace # <<>>
                /\ Events(p, "save", 0) = {}
                /\ r.runs_today >= MAX_RUNS_PER_DAY)
               => r.result = "quota"
            /\ r.result = "quota" =>
                   /\ r.pc = "done" /\ r.exit = 0
                   /\ r.runs_today >= MAX_RUNS_PER_DAY
                   /\ r.trace = << <<"load", 0, "ok">> >>
                   /\ r.imap = "none" /\ r.smtp = "none"
                   /\ file = JsonFile(r.today, r.runs_today, r.emails_sent_today)

\* A run stopped by the daily-run gate.
C6_Witness ==
    \E p \in Procs : run[p].result = "quota" /\ file.runs = MAX_RUNS_PER_DAY

\* C7: a run started (with credentials) at a time outside 00:01..09:00 ends in
\* that step with no call made: no IMAP, no SMTP, no read or write of the
\* counter file; a run started inside the window, both ends included, goes on
\* to read the counter file.
C7_WindowGate ==
    [][\A p \in Procs :
          (run[p].pc = "idle" /\ run'[p] # run[p] /\ creds) =>
              IF Times[now] < RUN_START_TIME \/ Times[now] > RUN_END_TIME
              THEN /\ run'[p].pc = "done" /\ run'[p].result = "window"
                   /\ run'[p].exit = 0
                   /\ run'[p].trace = <<>>
                   /\ run'[p].imap = "none" /\ run'[p].smtp = "none"
                   /\ file' = file /\ seen' = seen
              ELSE run'[p].pc = "load" /\ run'[p].result = "none"]_vars

\* A run refused at 09:01, before the clock moved on.
C7_Witness ==
    \E p \in Procs :
        run[p].result = "window" /\ run[p].trace = <<>> /\ Times[now] = 541

C9_SessionsReleased ==
    \A p \in Procs :
        run[p].pc = "done" => run[p].imap # "open" /\ run[p].smtp # "open"

\* C10: once both connections are set up the run ends with exit status zero
\* and the summary, whatever failed in the batch; a non-zero exit happens only
\* for missing credentials or a failed connection setup.
C10_ExitZeroAfterSetup ==
    \A p \in Procs :
        /\ (run[p].pc = "done" /\ LoopEntered(p)) =>
               run[p].exit = 0 /\ run[p].summary
        /\ run[p].exit = 1 => run[p].result = "nocreds" \/ ~LoopEntered(p)

\* The last call of run r.
LastEv(r) == r.trace[Len(r.trace)]

\* C11 as stated: after a run has completed a non-empty batch the counter file
\* holds runs-before + 1 and emails_sent-before + forwarded under the date the
\* run read at its start.
C11_CountersPersisted ==
    \A p \in Procs :
        (run[p].pc \in {"cleanup", "done"} /\ LoopEntered(p)) =>
            file = JsonFile(run[p].today, run[p].runs_today, run[p].emails_sent_today)

\* C11 as amended: the step that ends a non-empty batch writes runs-before + 1
\* and emails_sent-before + forwarded under the date read at the start of the
\* run when the write succeeds, and leaves the file as it was or truncated
\* when the write fails; the counters before are those of the file for that
\* date, or zero; no other step of a run changes the file.
C11_CountersWritten ==
    [][\A p \in Procs :
          LET r == run[p]
          IN  IF r.pc = "update" /\ run'[p] # r
              THEN /\ IF file.kind = "json" /\ file.date = r.today
                      THEN r.runs_today = file.runs
                           /\ r.emails_sent_today = file.emails_sent
                      ELSE r.runs_today = 0 /\ r.emails_sent_today = 0
                   /\ IF LastEv(run'[p]) = <<"save", 0, "ok">>
                      THEN file' = JsonFile(r.today, r.runs_today + 1,
                                            r.emails_sent_today + r.forwarded_count)
                      ELSE file' = file \/ file' = CorruptFile
              ELSE run'[p] # r => file' = file]_vars

\* A run read the date, outlasted midnight, had every item fail and wrote its
\* counters under the date it had read.
C11_Witness ==
    \E p \in Procs :
        /\ run[p].pc = "cleanup"
        /\ LastEv(run[p]) = <<"save", 0, "ok">>
        /\ run[p].forwarded_count = 0
        /\ run[p].today # day
        /\ file = JsonFile(run[p].today, 1, 0)

\* C12: loading the run state never stops a run and yields zero counters
\* under today's date when the file is missing, unreadable or of another
\* date; the stored counters are returned only when their date is today.
C12_LoadFreshOrToday ==
    [][\A p \in Procs :
          (run[p].pc = "load" /\ run'[p] # run[p]) =>
              /\ run'[p].today = day
              /\ run'[p].exit # 1
              /\ LastEv(run'[p]) = <<"load", 0, "ok">>
              /\ run'[p].pc = "imap" \/ run'[p].result = "quota"
              /\ IF file.kind = "json" /\ file.date = day
                 THEN /\ run'[p].runs_today = file.runs
                      /\ run'[p].emails_sent_today = file.emails_sent
                 ELSE /\ run'[p].runs_today = 0
                      /\ run'[p].emails_sent_today = 0
                      /\ run'[p].pc = "imap"]_vars

\* A file of another date that holds an exhausted quota was loaded as zero
\* and the run went on to connect.
C12_Witness ==
    \E p \in Procs :
        /\ run[p].pc = "imap"
        /\ file.kind = "json"
        /\ file.date # run[p].today
        /\ file.runs >= MAX_RUNS_PER_DAY
        /\ run[p].runs_today = 0

\* The write of the counter file failed in the run of p.
SaveFailedIn(p) ==
    \E k \in 1..Len(run[p].trace) :
        run[p].trace[k][1] = "save" /\ run[p].trace[k][3] # "ok"

\* C13: a run whose write of the counter file failed still releases both
\* sessions, emits the summary and returns normally.
C13_SaveFailureHarmless ==
    \A p \in Procs :
        (run[p].pc = "done" /\ SaveFailedIn(p)) =>
            /\ run[p].exit = 0
            /\ run[p].summary
            /\ run[p].smtp = "quit"
            /\ run[p].imap = "closed"

\* Character c occurs in sequence s.
Contains(s, c) == \E k \in 1..Len(s) : s[k] = c

\* C14: the subject of every message handed to the transport holds neither a
\* line feed nor a carriage return.
C14_SubjectSanitized ==
    \A p \in Procs : \A k \in 1..Len(run[p].trace) :
        run[p].trace[k][1] = "send" =>
            /\ ~Contains(SentSubject(run[p].trace[k][2]), "LF")
            /\ ~Contains(SentSubject(run[p].trace[k][2]), "CR")

\* Event e is a call made for one item of the batch.
ItemEv(e) == e[1] \in {"fetch", "send", "store"}

\* The position of identifier id in the batch of run r, 0 if it is not there.
Pos(r, id) ==
    IF \E j \in 1..Len(r.email_ids_to_process) : r.email_ids_to_process[j] = id
    THEN CHOOSE j \in 1..Len(r.email_ids_to_process) : r.email_ids_to_process[j] = id
    ELSE 0

\* C15: the items are processed one after the other in the order of the
\* list: the first call is the fetch of the first item; each later call is the
\* send after the fetch or the mark after the send of the same item, or the
\* fetch of the item at the next position; so the marks are a subsequence of
\* the list and each names the identifier just sent.
C15_Sequential ==
    \A p \in Procs :
        LET r == run[p]
            t == r.trace
        IN  \A k \in 2..Len(t) :
                ItemEv(t[k]) =>
                    IF ~ItemEv(t[k - 1])
                    THEN t[k - 1][1] = "smtp_login"
                         /\ t[k] = <<"fetch", r.email_ids_to_process[1], t[k][3]>>
                    ELSE \/ t[k][1] = "send" /\ t[k - 1] = <<"fetch", t[k][2], "ok">>
                         \/ t[k][1] = "store" /\ t[k - 1] = <<"send", t[k][2], "ok">>
                         \/ /\ t[k][1] = "fetch"
                            /\ Pos(r, t[k - 1][2]) >= 1
                            /\ Pos(r, t[k][2]) = Pos(r, t[k - 1][2]) + 1

\* Both items of a batch were fetched, sent and marked, the first before the
\* second.
C15_Witness ==
    \E p \in Procs :
        /\ Len(run[p].email_ids_to_process) >= 2
        /\ Did(p, "store", run[p].email_ids_to_process[1], "ok")
        /\ Did(p, "store", run[p].email_ids_to_process[2], "ok")

\* C16: once the transport session was lost at some item, every later item
\* of the run is sent over a live session.
C16_LaterItemsOverLiveSession ==
    \A p \in Procs :
        (/\ run[p].pc = "send"
         /\ \E k \in 1..Len(run[p].trace) :
                run[p].trace[k][1] = "send" /\ run[p].trace[k][3] = "disconnected")
            => run[p].smtp = "open"

\* C17: a missing credential, a failed IMAP login and a failed SMTP login end
\* the run with a non-zero exit status before any item is processed: no
\* fetch, send or mark was made, no counter was written, and the flags, the
\* deliveries and the counter file are as they were.
C17_FatalBeforeItems ==
    [][\A p \in Procs :
          (\/ run[p].pc = "idle" /\ run'[p] # run[p] /\ ~creds
           \/ run[p].pc = "imap" /\ run'[p] # run[p]
                  /\ LastEv(run'[p]) = <<"imap_login", 0, "error">>
           \/ run[p].pc = "smtp" /\ run'[p] # run[p]
                  /\ LastEv(run'[p]) = <<"smtp_login", 0, "error">>)
              => /\ run'[p].pc = "done"
                 /\ run'[p].exit = 1
                 /\ ~run'[p].summary
                 /\ \A k \in 1..Len(run'[p].trace) :
                        run'[p].trace[k][1] \notin {"fetch", "send", "store", "save"}
                 /\ file' = file
                 /\ seen' = seen
                 /\ delivered' = delivered]_vars

\* The SMTP login failed with unread mail listed: the run is over with exit
\* status 1 and the listed messages are still unread.
C17_Witness ==
    \E p \in Procs :
        /\ run[p].pc = "done"
        /\ run[p].exit = 1
        /\ Did(p, "smtp_login", 0, "error")
        /\ run[p].email_ids_to_process # <<>>
        /\ \A k \in 1..Len(run[p].email_ids_to_process) :
               run[p].email_ids_to_process[k] \notin seen

\* C18: across runs that do not overlap, a message sent and marked seen is
\* never listed, fetched or sent again: a flag once set stays set, a mark
\* that returns sets the flag, a search lists no flagged message, and a run
\* fetches and sends only what it listed.  A second delivery therefore needs
\* a listing by a later run, which a mark that returned rules out; as the
\* fetch has set the flag before the send, no message is delivered twice.
C18_NoRedeliveryOnceMarked ==
    [][/\ seen \subseteq seen'
       /\ \A p \in Procs :
             LET r == run[p]
             IN  /\ (r.pc = "store" /\ run'[p] # r
                       /\ LastEv(run'[p]) = <<"store", num(r), "ok">>)
                        => num(r) \in seen'
                 /\ (r.pc = "search" /\ run'[p].pc = "smtp")
                        => \A k \in 1..Len(run'[p].email_ids) :
                               run'[p].email_ids[k] \notin seen
                 /\ (r.pc \in {"fetch", "send"} /\ run'[p] # r)
                        => /\ LastEv(run'[p])[1] = r.pc
                           /\ Pos(r, LastEv(run'[p])[2]) >= 1
       /\ \A m \in Msgs :
             delivered'[m] # delivered[m] =>
                 \E p \in Procs :
                     /\ run[p].pc = "send"
                     /\ LastEv(run'[p]) = <<"send", m, "ok">>
                     /\ Pos(run[p], m) >= 1
                     /\ m \in seen
       /\ \A m \in Msgs : delivered'[m] <= 1]_vars

\* A later run lists unread mail; a message an earlier run sent and marked is
\* not in its list.
C18_Witness ==
    \E p \in Procs : \E m \in Msgs :
        /\ run[p].pc = "smtp"
        /\ run[p].email_ids # <<>>
        /\ delivered[m] = 1
        /\ m \in seen
        /\ \A k \in 1..Len(run[p].email_ids) : run[p].email_ids[k] # m

\* C19: nothing keeps two invocations apart.  A search lists every message
\* unread at that moment, whatever the other run has listed; a send delivers
\* whether or not the other run has delivered the message; the counter written
\* is the one the run loaded plus one, whatever the file holds by then.  So
\* a message delivered twice was listed and sent by both runs, and the file
\* holds the count of the last writer.
C19_NoMutualExclusion ==
    [][/\ \A p \in Procs :
             LET r == run[p]
             IN  /\ (r.pc = "search" /\ run'[p].pc = "smtp")
                        => /\ run'[p].email_ids = SortedSeq(Msgs \ seen)
                           /\ run'[p].email_ids_to_process =
                                  SubSeq(run'[p].email_ids, 1,
                                         Min(Len(run'[p].email_ids), MAX_EMAILS_PER_RUN))
                 /\ (r.pc = "send" /\ run'[p] # r
                       /\ LastEv(run'[p]) = <<"send", num(r), "ok">>)
                        => delivered'[num(r)] = Min(delivered[num(r)] + 1, 2)
                 /\ (r.pc = "update" /\ run'[p] # r
                       /\ LastEv(run'[p]) = <<"save", 0, "ok">>)
                        => file' = JsonFile(r.today, r.runs_today + 1,
                                            r.emails_sent_today + r.forwarded_count)
       /\ \A m \in Msgs :
             delivered'[m] = 2 =>
                 \A p \in Procs : Pos(run'[p], m) >= 1
                                   /\ Did(p, "send", m, "ok")']_vars

\* Both runs listed message 1 while it was unread, both sent and marked it,
\* so it was delivered twice; both loaded a run count of 0 and wrote 1, so
\* two completed runs are persisted as one.
C19_Witness ==
    /\ \A p \in Procs :
          /\ run[p].pc = "done"
          /\ run[p].result = "complete"
          /\ Did(p, "send", 1, "ok")
          /\ Did(p, "store", 1, "ok")
          /\ Did(p, "save", 0, "ok")
          /\ run[p].runs_today = 1
    /\ delivered[1] = 2
    /\ file.kind = "json"
    /\ file.runs = 1

\* The marks of run p that returned.
MarksOk(p) ==
    {k \in 1..Len(run[p].trace) :
        run[p].trace[k][1] = "store" /\ run[p].trace[k][3] = "ok"}

\* C20: while item i is being processed forwarded_count + failed_count is
\* i - 1; once the loop is over it is the number of items attempted, which is
\* min(total unread, MAX_EMAILS_PER_RUN); forwarded_count is at all times the
\* number of marks that were called and returned.
C20_TallyInvariant ==
    \A p \in Procs :
        LET r == run[p]
        IN  /\ r.pc \in {"fetch", "send", "store"} =>
                   /\ r.i \in 1..processing_count(r)
                   /\ r.forwarded_count + r.failed_count = r.i - 1
            /\ (r.pc \in {"update", "cleanup", "done"} /\ LoopEntered(p)) =>
                   /\ r.forwarded_count + r.failed_count = Len(r.email_ids_to_process)
                   /\ Len(r.email_ids_to_process) =
                          Min(Len(r.email_ids), MAX_EMAILS_PER_RUN)
            /\ r.forwarded_count = Cardinality(MarksOk(p))

\* A finished batch of at least two items with one forwarded and one failed at
\* its mark.
C20_Witness ==
    \E p \in Procs :
        /\ run[p].pc = "done"
        /\ run[p].forwarded_count >= 1
        /\ run[p].failed_count >= 1
        /\ \E m \in Msgs : Did(p, "store", m, "error")

====
